---- MODULE Spec2Model ----
(***************************************************************************)
(* RADAR-X threat decision and mitigation orchestration.                   *)
(*                                                                         *)
(* Three components are modelled, each with its own specification:        *)
(*   SpecDecision   - feature extraction, normalisation and the two        *)
(*                    decision engines (Stage1IntegratedSystem and         *)
(*                    IntegratedBackend), with the honeypot status and the *)
(*                    anomaly classifier as their collaborators;           *)
(*   SpecTracker    - AttackChainTracker;                                  *)
(*   SpecMitigation - MitigationEngine.execute_mitigation.                 *)
(*                                                                         *)
(* Arithmetic is exact fixed point.  Raw feature values are integers in    *)
(* units of 1/Unit, normalised values are integers in units of 1/One, and  *)
(* threat scores are integers (points of 100).  The telemetry batches are  *)
(* chosen so that every division of the source is exact in these units.    *)
(***************************************************************************)
EXTENDS Integers, Sequences, FiniteSets, TLC

VARIABLES
    system,         \* which decision engine this run exercises
    hpTotal,        \* HoneypotManager: len(self.honeypots)
    hpModified,     \* HoneypotManager: number of honeypots with modified = True
    mlAvailable,    \* RansomwareMLDetector: predict can answer (is_trained, usable model)
    demo_mode,      \* IntegratedBackend.demo_mode
    threat_level,   \* Stage1IntegratedSystem.threat_level
    call,           \* the last decision-engine call: what it saw and what it returned
    detected_techniques, \* AttackChainTracker.detected_techniques (ids, in order)
    attack_timeline,     \* AttackChainTracker.attack_timeline
    current_stage,       \* AttackChainTracker.current_stage
    clock,               \* logical clock read by datetime.now() in the tracker
    trk,                 \* the last tracker operation and what it returned
    mit,                 \* MitigationEngine: configuration, run in progress, response_log
    pipe,                \* Stage3ProtectionPipeline: incident_count, call in progress,
                         \* the incident files under data/incidents, wall clock
    loop,                \* monitoring_loop: still iterating, and whether the last
                         \* verdict still waits for a Stage 3 response
    feat,                \* FeatureExtractor: a raw vector and what
                         \* normalize_features returned for it
    report,              \* the dict generate_attack_report returned last, as its
                         \* caller holds it
    disk                 \* the decoy files on disk: how many were overwritten, how
                         \* many deleted, and the DELETED alerts of the last check

trackerVars  == <<detected_techniques, attack_timeline, current_stage, clock, trk>>
vars == <<system, hpTotal, hpModified, mlAvailable, demo_mode, threat_level, call,
          detected_techniques, attack_timeline, current_stage, clock, trk, mit,
          pipe, loop, feat, report, disk>>

-----------------------------------------------------------------------------
(* Arithmetic helpers (numpy / builtins)                                   *)

Max(a, b) == IF a >= b THEN a ELSE b
Min(a, b) == IF a <= b THEN a ELSE b
Abs(x) == IF x < 0 THEN -x ELSE x

\* Faulty variant: np.clip without its lower bound
ClipAbove(x, lo, hi) == IF x > hi THEN hi ELSE x

\* np.clip(x, lo, hi)
Clip(x, lo, hi) == IF x < lo THEN lo ELSE IF x > hi THEN hi ELSE x

RECURSIVE SumSeq(_)
SumSeq(s) == IF s = <<>> THEN 0 ELSE Head(s) + SumSeq(Tail(s))

RECURSIVE MaxSeq(_)
MaxSeq(s) == IF Len(s) = 1 THEN s[1] ELSE Max(Head(s), MaxSeq(Tail(s)))

RECURSIVE Gcd(_, _)
Gcd(a, b) == IF b = 0 THEN a ELSE Gcd(b, a % b)

RECURSIVE LcmSeq(_)
LcmSeq(s) == IF s = <<>> THEN 1
             ELSE LET r == LcmSeq(Tail(s)) IN (Head(s) * r) \div Gcd(Head(s), r)

-----------------------------------------------------------------------------
(* Units                                                                   *)

\* raw values are kept in halves, thirds and eighths: means of up to three
\* values, np.std of two deltas, compromised / 8
Unit == 3 * 8

\* FeatureExtractor.normalize_features: the per-feature ceilings
MaxValues == <<100, 50, 50, 8, 20, 100, 2000, 10, 100, 20, 10, 1, 1, 10, 2>>

\* np.where(max_values == 0, 1, max_values)
Ceiling(i) == IF MaxValues[i] = 0 THEN 1 ELSE MaxValues[i]

CeilUnit == LcmSeq([i \in 1..Len(MaxValues) |-> Ceiling(i)])

\* the normalised value 1.0
One == Unit * CeilUnit

-----------------------------------------------------------------------------
(* Telemetry: file events, process snapshots, honeypot status              *)

\* time.time() at the moment of the tick
CurrentTime == 100

FileEvent(type, timestamp, hasEntropy, entropy, ext) ==
    [type |-> type, timestamp |-> timestamp, hasEntropy |-> hasEntropy,
     entropy |-> entropy, ext |-> ext]

ProcessInfo(cpu, mem, hasIo, write, threat, start) ==
    [cpu_percent |-> cpu, memory_mb |-> mem, hasIo |-> hasIo, write_mb |-> write,
     threat_score |-> threat, start_time |-> start]

\* contents of self.file_events when a tick runs
FileBatches ==
    { <<>>,
      \* one stale event, older than the 60 s window
      << FileEvent("modified", CurrentTime - 90, TRUE, 8, "txt") >>,
      \* two events of a type the extractor does not count, no entropy, no extension
      << FileEvent("moved", CurrentTime - 9, FALSE, 0, ""),
         FileEvent("moved", CurrentTime - 8, FALSE, 0, "") >>,
      << FileEvent("modified", CurrentTime - 5, TRUE, 8, "txt") >>,
      \* a burst, delivered out of timestamp order
      << FileEvent("modified", CurrentTime - 10, TRUE, 8, "locked"),
         FileEvent("deleted",  CurrentTime - 7,  FALSE, 0, "txt"),
         FileEvent("created",  CurrentTime - 9,  TRUE, 4, "locked") >> }

QuietProcess == ProcessInfo(2, 100, TRUE, 0, 0, 0)
BusyProcess  == ProcessInfo(90, 1500, TRUE, 300, 0, 0)
NewSuspect   == ProcessInfo(50, 200, FALSE, 0, 45, CurrentTime - 1)

\* process snapshots handed to the extractor
ProcessBatches ==
    { <<>>,
      << QuietProcess >>,
      << BusyProcess, QuietProcess >>,
      << BusyProcess, BusyProcess, NewSuspect, NewSuspect, NewSuspect,
         NewSuspect, NewSuspect >> }

\* HoneypotManager.get_status
get_status == [given |-> TRUE, total_honeypots |-> hpTotal, compromised |-> hpModified]

\* the decoy files as deployed: none overwritten, none deleted
NoDecoys == [overwritten |-> 0, deleted |-> 0, deleted_alerts |-> 0]

\* Faulty variant: a decoy that is gone is flagged like an overwritten one
CheckFlaggingDeleted(modified, decoys) ==
    [modified |-> Max(modified, decoys.overwritten + decoys.deleted),
     deleted_alerts |-> decoys.deleted]

\* HoneypotManager.check_integrity: a decoy that no longer exists raises a
\* DELETED alert and is skipped; a decoy whose hash differs raises MODIFIED and
\* gets metadata['modified'] = True, which nothing resets.  modified is the
\* number of flagged decoys before the check
check_integrity(modified, decoys) ==
    [modified |-> Max(modified, decoys.overwritten),
     deleted_alerts |-> decoys.deleted]

-----------------------------------------------------------------------------
(* FeatureExtractor                                                        *)

extract_file_features(file_events) ==
    IF file_events = <<>> THEN <<0, 0, 0, 0, 0>>
    ELSE
      LET modified == Len(SelectSeq(file_events, LAMBDA e : e.type = "modified"))
          created  == Len(SelectSeq(file_events, LAMBDA e : e.type = "created"))
          deleted  == Len(SelectSeq(file_events, LAMBDA e : e.type = "deleted"))
          age      == CurrentTime - file_events[1].timestamp
          \* count / max(age / 60, 1)
          Rate(n)  == IF age > 60 THEN (n * Unit * 60) \div age ELSE n * Unit
          withEnt  == SelectSeq(file_events, LAMBDA e : e.hasEntropy)
          entropies == [i \in 1..Len(withEnt) |-> withEnt[i].entropy]
          avg_entropy == IF entropies = <<>> THEN 0
                         ELSE (SumSeq(entropies) * Unit) \div Len(entropies)
          extensions == {file_events[i].ext : i \in {j \in 1..Len(file_events) :
                                                        file_events[j].ext # ""}}
      IN  <<Rate(modified), Rate(created), Rate(deleted), avg_entropy,
            Cardinality(extensions) * Unit>>

extract_process_features(process_data) ==
    IF process_data = <<>> THEN <<0, 0, 0, 0, 0>>
    ELSE
      LET n == Len(process_data)
          max_cpu == MaxSeq([i \in 1..n |-> process_data[i].cpu_percent])
          total_memory == SumSeq([i \in 1..n |-> process_data[i].memory_mb])
          suspicious_count == Len(SelectSeq(process_data, LAMBDA p : p.threat_score > 30))
          disk_write_rate ==
              SumSeq([i \in 1..n |-> IF process_data[i].hasIo
                                    THEN process_data[i].write_mb ELSE 0])
          new_processes == Len(SelectSeq(process_data, LAMBDA p : CurrentTime - p.start_time < 60))
      IN  <<max_cpu * Unit, total_memory * Unit, suspicious_count * Unit,
            disk_write_rate * Unit, new_processes * Unit>>

extract_honeypot_features(honeypot_status) ==
    IF ~honeypot_status.given THEN <<0, 0>>
    ELSE
      LET compromised == honeypot_status.compromised
          total == honeypot_status.total_honeypots
          access_rate == IF total > 0 THEN (compromised * Unit) \div total ELSE 0
      IN  <<compromised * Unit, access_rate>>

\* sorted(file_events, key=timestamp): stable insertion sort
RECURSIVE Insert(_, _)
Insert(e, s) ==
    IF s = <<>> THEN <<e>>
    ELSE IF e.timestamp < Head(s).timestamp THEN <<e>> \o s
    ELSE <<Head(s)>> \o Insert(e, Tail(s))

RECURSIVE SortByTimestamp(_)
SortByTimestamp(s) ==
    IF s = <<>> THEN <<>>
    ELSE Insert(s[Len(s)], SortByTimestamp(SubSeq(s, 1, Len(s) - 1)))

\* the integer r with r * r = v (np.std is exact on the batches used)
Sqrt(v) == CHOOSE r \in 0..v : r * r = v

extract_temporal_features(file_events) ==
    IF Len(file_events) < 2 THEN <<0, 0, Unit>>
    ELSE
      LET sorted_events == SortByTimestamp(file_events)
          n == Len(sorted_events) - 1
          deltas == [i \in 1..n |-> sorted_events[i + 1].timestamp
                                      - sorted_events[i].timestamp]
          acceleration == IF n >= 2 THEN ((deltas[n] - deltas[1]) * Unit) \div n ELSE 0
          total == SumSeq(deltas)
          \* n * std(deltas) = sqrt(n * sum(x^2) - sum(x)^2)
          root == Sqrt(n * SumSeq([i \in 1..n |-> deltas[i] * deltas[i]]) - total * total)
          burst_score == IF n > 1 THEN (root * Unit) \div n ELSE 0
          \* burst_score / mean_delta, if mean_delta > 0
          consistency == IF total > 0 /\ n > 1 THEN (root * Unit) \div total ELSE 0
      IN  <<acceleration, burst_score, consistency>>

extract_all_features(file_events, process_data, honeypot_status) ==
    extract_file_features(file_events) \o extract_process_features(process_data)
      \o extract_honeypot_features(honeypot_status)
      \o extract_temporal_features(file_events)

normalize_features(features) ==
    [i \in 1..Len(features) |-> Clip((features[i] * CeilUnit) \div Ceiling(i), 0, One)]

\* float(np.sum(np.abs(features)))
feature_sum(features) == SumSeq([i \in 1..Len(features) |-> Abs(features[i])])

\* no vector has been normalised yet
NoFeatures == [raw |-> <<>>, normalized |-> <<>>]

-----------------------------------------------------------------------------
(* RansomwareMLDetector: the Isolation Forest behind predict_with_confidence *)

\* raw decision values the classifier can return, in hundredths
\* (model.decision_function: more negative = more anomalous)
DecisionValues == {-60, -41, -40, -21, -20, -1, 0, 19, 20, 50}

\* model.predict: -1 (anomalous) below the decision boundary, else 1
predict(d) == IF d < 0 THEN -1 ELSE 1

\* np.clip((-raw_scores + 0.5) * 100, 0, 100)
predict_proba(d) == Clip(-d + 50, 0, 100)

-----------------------------------------------------------------------------
(* Decision engines                                                        *)

Verdict(impl, outcome, is_ransomware, score, level, is_idle, fsum, consulted, d, simulated, empty) ==
    [impl |-> impl, outcome |-> outcome,
     prediction |-> IF is_ransomware THEN "RANSOMWARE" ELSE "NORMAL",
     threat_score |-> score, threat_level |-> level, is_idle |-> is_idle,
     feature_sum |-> fsum,
     compromised |-> hpModified,      \* the decoy status when the call was made
     total_honeypots |-> hpTotal,
     consulted |-> consulted,         \* predict_with_confidence was called
     ml_prediction |-> IF consulted /\ mlAvailable THEN predict(d) ELSE 0,
     ml_score |-> IF consulted /\ mlAvailable THEN predict_proba(d) ELSE 0,
     simulated |-> simulated,         \* the verdict comes from _simulate_state
     demo |-> demo_mode,              \* the backend ran without its Stage 1 components
     empty_telemetry |-> empty]       \* no file event and no process reached the extractor

NoCall == [Verdict("none", "none", FALSE, 0, "LOW", FALSE, 0, FALSE, 0, FALSE, FALSE)
             EXCEPT !.prediction = "-", !.threat_level = "-"]

\* a call that ended in an exception: nothing is returned
Raised(impl, is_idle, fsum, empty) ==
    [Verdict(impl, "raised", FALSE, 0, "LOW", is_idle, fsum, TRUE, 0, FALSE, empty)
       EXCEPT !.prediction = "-", !.threat_level = "-"]

\* is_idle = feature_sum < 0.5
Stage1IdleThreshold == One \div 2

\* IDLE_THRESHOLD = 4.0
IDLE_THRESHOLD == 4 * One

\* the decoy override of the score: max(threat_score_value, 90.0)
DecoyScore(compromised, score) == IF compromised > 0 THEN Max(score, 90) ELSE score

\* Stage1IntegratedSystem.analyze_current_state: the threat level
Stage1ThreatLevel(compromised, is_ransomware, score) ==
    IF compromised > 0 THEN "CRITICAL"
    ELSE IF is_ransomware \/ score > 70 THEN "CRITICAL"
    ELSE IF score > 50 THEN "HIGH"
    ELSE IF score > 30 THEN "MEDIUM"
    ELSE "LOW"

\* IntegratedBackend.get_system_state: the threat level
BackendThreatLevel(compromised, score) ==
    IF compromised > 0 \/ score > 70 THEN "CRITICAL"
    ELSE IF score > 50 THEN "HIGH"
    ELSE IF score > 30 THEN "MEDIUM"
    ELSE "LOW"

\* Stage1IntegratedSystem.analyze_current_state, from the status that
\* self.honeypot_manager.get_status() returned
AnalyzeStatus(file_events, process_data, d, honeypot_status) ==
    LET recent_files == SelectSeq(file_events, LAMBDA e : CurrentTime - e.timestamp < 60)
        features == normalize_features(
                        extract_all_features(recent_files, process_data, honeypot_status))
        fsum == feature_sum(features)
        is_idle == fsum < Stage1IdleThreshold
        empty == recent_files = <<>> /\ process_data = <<>>
        ml_ransomware == IF is_idle THEN FALSE ELSE predict(d) = -1
        ml_score == IF is_idle THEN 5 ELSE predict_proba(d)
        compromised == honeypot_status.compromised
        is_ransomware == IF compromised > 0 THEN TRUE ELSE ml_ransomware
        score == DecoyScore(compromised, ml_score)
        seen == [compromised |-> compromised,
                 total_honeypots |-> honeypot_status.total_honeypots]
    IN  IF ~is_idle /\ ~mlAvailable
        \* predict raises ValueError
        THEN [Raised("stage1", is_idle, fsum, empty)
                EXCEPT !.compromised = seen.compromised,
                       !.total_honeypots = seen.total_honeypots]
        ELSE [Verdict("stage1", "returned", is_ransomware, score,
                      Stage1ThreatLevel(compromised, ml_ransomware, ml_score),
                      is_idle, fsum, ~is_idle, d, FALSE, empty)
                EXCEPT !.compromised = seen.compromised,
                       !.total_honeypots = seen.total_honeypots]

\* Stage1IntegratedSystem.analyze_current_state
analyze_current_state(file_events, process_data, d) ==
    AnalyzeStatus(file_events, process_data, d, get_status)

\* values random.uniform(5, 30) can return
SimulatedScores == {5, 17, 30}

\* IntegratedBackend._simulate_state
_simulate_state(sim_score, empty) ==
    Verdict("backend", "returned", FALSE, sim_score, "LOW", FALSE, 2 * One,
            FALSE, 0, TRUE, empty)

\* IntegratedBackend.get_system_state
get_system_state(process_data, d, sim_score) ==
    LET recent_processes == SubSeq(process_data, 1, Min(50, Len(process_data)))
        honeypot_status == get_status
        features_normalized == normalize_features(
                                  extract_all_features(<<>>, recent_processes, honeypot_status))
        fsum == feature_sum(features_normalized)
        is_idle == fsum < IDLE_THRESHOLD
        empty == recent_processes = <<>>
        ml_ransomware == IF is_idle THEN FALSE ELSE predict(d) = -1
        ml_score == IF is_idle THEN 5 ELSE predict_proba(d)
        compromised == honeypot_status.compromised
        is_ransomware == IF compromised > 0 THEN TRUE ELSE ml_ransomware
        threat_score == DecoyScore(compromised, ml_score)
    IN  IF demo_mode THEN _simulate_state(sim_score, empty)
        ELSE IF ~is_idle /\ ~mlAvailable
        \* predict raises; except Exception: return self._simulate_state()
        THEN [_simulate_state(sim_score, empty) EXCEPT !.consulted = TRUE,
                                                      !.feature_sum = fsum]
        ELSE Verdict("backend", "returned", is_ransomware, threat_score,
                     BackendThreatLevel(compromised, threat_score),
                     is_idle, fsum, ~is_idle, d, FALSE, empty)

\* verify_fix.py: the idle test on the raw features, then simulate_analysis
verify_fix(d) ==
    LET features_idle == extract_all_features(<<>>, <<>>,
                             [given |-> TRUE, total_honeypots |-> 8, compromised |-> 0])
        fsum == feature_sum(features_idle)
        is_idle == fsum < Unit \div 2
        is_ransomware == IF is_idle THEN FALSE ELSE predict(d) = -1
        score == IF is_idle THEN 5 ELSE predict_proba(d)
        v == Verdict("verify_fix", "returned", is_ransomware, score,
                     Stage1ThreatLevel(0, is_ransomware, score),
                     is_idle, fsum, ~is_idle, d, FALSE, TRUE)
    IN  IF ~mlAvailable
        THEN [Raised("verify_fix", is_idle, fsum, TRUE) EXCEPT !.compromised = 0,
                                                              !.total_honeypots = 8]
        ELSE [v EXCEPT !.compromised = 0, !.total_honeypots = 8]

-----------------------------------------------------------------------------
(* AttackChainTracker                                                      *)

\* AttackChainTracker.ATTACK_CHAIN
ATTACK_CHAIN ==
    [T1566 |-> [name |-> "Phishing", stage |-> 1, next_stages |-> <<"T1204", "T1059">>],
     T1204 |-> [name |-> "User Execution", stage |-> 2, next_stages |-> <<"T1059", "T1055">>],
     T1059 |-> [name |-> "Command and Scripting", stage |-> 3,
                next_stages |-> <<"T1055", "T1082">>],
     T1055 |-> [name |-> "Process Injection", stage |-> 4,
                next_stages |-> <<"T1082", "T1083">>],
     T1082 |-> [name |-> "System Information Discovery", stage |-> 5,
                next_stages |-> <<"T1083", "T1490">>],
     T1083 |-> [name |-> "File and Directory Discovery", stage |-> 6,
                next_stages |-> <<"T1490", "T1486">>],
     T1490 |-> [name |-> "Inhibit System Recovery", stage |-> 7,
                next_stages |-> <<"T1486">>],
     T1486 |-> [name |-> "Data Encrypted for Impact", stage |-> 8,
                next_stages |-> <<"T1657">>],
     T1657 |-> [name |-> "Ransom Note", stage |-> 9, next_stages |-> <<>>]]

\* ATTACK_CHAIN.get(technique_id, {}).get(..., default)
TechName(id)  == IF id \in DOMAIN ATTACK_CHAIN THEN ATTACK_CHAIN[id].name ELSE "Unknown"
TechStage(id) == IF id \in DOMAIN ATTACK_CHAIN THEN ATTACK_CHAIN[id].stage ELSE 0
NextStages(id) == IF id \in DOMAIN ATTACK_CHAIN THEN ATTACK_CHAIN[id].next_stages ELSE <<>>

\* Faulty variant: a flag counts as soon as its key is present
GetPresent(indicators, key) == key \in DOMAIN indicators

\* behavior_indicators.get(key): absent and False are both falsy
Get(indicators, key) == key \in DOMAIN indicators /\ indicators[key]

\* Faulty variant: the tests run in the order of the stages
TableByStage ==
    << <<"script_execution", "T1059">>, <<"process_injection", "T1055">>,
       <<"system_info_collection", "T1082">>, <<"file_discovery", "T1083">>,
       <<"shadow_copy_deletion", "T1490">>, <<"high_entropy", "T1486">> >>

\* Faulty variant: a decoy hit is mapped to the ransom note
TableWithRansomNote ==
    << <<"shadow_copy_deletion", "T1490">>, <<"high_entropy", "T1486">>,
       <<"file_discovery", "T1083">>, <<"process_injection", "T1055">>,
       <<"script_execution", "T1059">>, <<"system_info_collection", "T1082">>,
       <<"honeypot_hit", "T1657">> >>

\* the pattern matching of map_behavior_to_technique, in the order of its tests
BehaviorTable ==
    << <<"shadow_copy_deletion", "T1490">>, <<"high_entropy", "T1486">>,
       <<"file_discovery", "T1083">>, <<"process_injection", "T1055">>,
       <<"script_execution", "T1059">>, <<"system_info_collection", "T1082">> >>

RECURSIVE MatchFrom(_, _)
MatchFrom(indicators, i) ==
    IF i > Len(BehaviorTable) THEN <<>>
    ELSE (IF Get(indicators, BehaviorTable[i][1]) THEN <<BehaviorTable[i][2]>> ELSE <<>>)
           \o MatchFrom(indicators, i + 1)

matched_techniques(indicators) == MatchFrom(indicators, 1)

Ids(records) == [i \in 1..Len(records) |-> records[i].id]
IdSet(records) == {records[i].id : i \in 1..Len(records)}

\* the tracker's fields, as one value the methods transform
Tracker == [detected_techniques |-> detected_techniques,
            attack_timeline |-> attack_timeline,
            current_stage |-> current_stage]

\* Faulty variant: the stage is overwritten by every new record
RecordOverwritingStage(t, technique_id, now) ==
    IF technique_id \notin IdSet(t.detected_techniques)
    THEN LET record == [id |-> technique_id, name |-> TechName(technique_id),
                        stage |-> TechStage(technique_id), timestamp |-> now]
         IN  [detected_techniques |-> Append(t.detected_techniques, record),
              attack_timeline |-> Append(t.attack_timeline, record),
              current_stage |-> record.stage]
    ELSE t

\* Faulty variant: no membership test before appending
RecordWithoutLookup(t, technique_id, now) ==
    LET record == [id |-> technique_id, name |-> TechName(technique_id),
                   stage |-> TechStage(technique_id), timestamp |-> now]
    IN  [detected_techniques |-> Append(t.detected_techniques, record),
         attack_timeline |-> Append(t.attack_timeline, record),
         current_stage |-> IF record.stage > t.current_stage
                           THEN record.stage ELSE t.current_stage]

\* AttackChainTracker._record_technique
_record_technique(t, technique_id, now) ==
    IF technique_id \notin IdSet(t.detected_techniques)
    THEN LET record == [id |-> technique_id, name |-> TechName(technique_id),
                        stage |-> TechStage(technique_id), timestamp |-> now]
         IN  [detected_techniques |-> Append(t.detected_techniques, record),
              attack_timeline |-> Append(t.attack_timeline, record),
              current_stage |-> IF record.stage > t.current_stage
                                THEN record.stage ELSE t.current_stage]
    ELSE t

\* for tech_id in matched_techniques: self._record_technique(tech_id)
RECURSIVE RecordAll(_, _, _)
RecordAll(t, ids, now) ==
    IF ids = <<>> THEN t
    ELSE RecordAll(_record_technique(t, Head(ids), now), Tail(ids), now)

\* AttackChainTracker.map_behavior_to_technique: the tracker it leaves
map_behavior_to_technique(t, indicators, now) ==
    RecordAll(t, matched_techniques(indicators), now)

\* Faulty variant: every urgency threshold one stage late
UrgencyOneStageLate(stage) ==
    IF stage >= 8 THEN "CRITICAL"
    ELSE IF stage >= 6 THEN "HIGH"
    ELSE IF stage >= 4 THEN "MEDIUM"
    ELSE "LOW"

\* AttackChainTracker._calculate_urgency
_calculate_urgency(stage) ==
    IF stage >= 7 THEN "CRITICAL"
    ELSE IF stage >= 5 THEN "HIGH"
    ELSE IF stage >= 3 THEN "MEDIUM"
    ELSE "LOW"

\* AttackChainTracker._get_recommended_actions: list(set(actions))
_get_recommended_actions(predicted) ==
    LET ActionsFor(id) ==
            IF id = "T1490" THEN {"URGENT: Block access to shadow copies",
                                  "Protect backup systems immediately"}
            ELSE IF id = "T1486" THEN {"CRITICAL: Lock all sensitive folders NOW",
                                       "Isolate system from network",
                                       "Kill suspicious processes immediately"}
            ELSE IF id = "T1083" THEN {"Monitor file system access patterns",
                                       "Enable honeypot file alerts"}
            ELSE IF id = "T1055" THEN {"Monitor process creation/injection",
                                       "Enable process integrity checks"}
            ELSE {}
        actions == UNION {ActionsFor(predicted[i]) : i \in 1..Len(predicted)}
    IN  IF actions # {} THEN actions ELSE {"Continue enhanced monitoring"}

\* Faulty variant: the prediction follows the first detection, not the latest
PredictFromFirst(t) ==
    IF t.detected_techniques = <<>>
    THEN [has_stage |-> FALSE, current_stage |-> 0, current_technique |-> "-",
          predicted_techniques |-> <<>>, confidence |-> 0,
          recommended_actions |-> {"Continue monitoring"}, urgency |-> "-"]
    ELSE LET first_technique == t.detected_techniques[1]
             predicted == NextStages(first_technique.id)
         IN  [has_stage |-> TRUE, current_stage |-> t.current_stage,
              current_technique |-> first_technique.id,
              predicted_techniques |-> predicted,
              confidence |-> Min(95, 50 + t.current_stage * 8),
              recommended_actions |-> _get_recommended_actions(predicted),
              urgency |-> _calculate_urgency(t.current_stage)]

\* Faulty variant: the empty prediction carries a stage and an urgency too
PredictWithDefaults(t) ==
    IF t.detected_techniques = <<>>
    THEN [has_stage |-> TRUE, current_stage |-> 0, current_technique |-> "-",
          predicted_techniques |-> <<>>, confidence |-> 0,
          recommended_actions |-> {"Continue monitoring"}, urgency |-> "LOW"]
    ELSE LET latest_technique == t.detected_techniques[Len(t.detected_techniques)]
             predicted == NextStages(latest_technique.id)
         IN  [has_stage |-> TRUE, current_stage |-> t.current_stage,
              current_technique |-> latest_technique.id,
              predicted_techniques |-> predicted,
              confidence |-> Min(95, 50 + t.current_stage * 8),
              recommended_actions |-> _get_recommended_actions(predicted),
              urgency |-> _calculate_urgency(t.current_stage)]

\* AttackChainTracker.predict_next_stage; confidence in hundredths.
\* has_stage: the result carries current_stage, current_technique and urgency
predict_next_stage(t) ==
    IF t.detected_techniques = <<>>
    THEN [has_stage |-> FALSE, current_stage |-> 0, current_technique |-> "-",
          predicted_techniques |-> <<>>, confidence |-> 0,
          recommended_actions |-> {"Continue monitoring"}, urgency |-> "-"]
    ELSE LET latest_technique == t.detected_techniques[Len(t.detected_techniques)]
             predicted == NextStages(latest_technique.id)
         IN  [has_stage |-> TRUE, current_stage |-> t.current_stage,
              current_technique |-> latest_technique.id,
              predicted_techniques |-> predicted,
              confidence |-> Min(95, 50 + t.current_stage * 8),
              recommended_actions |-> _get_recommended_actions(predicted),
              urgency |-> _calculate_urgency(t.current_stage)]

\* the record of the last call made on the tracker (none yet); indicators is
\* the dict of the latest map_behavior_to_technique call
NoOp == [op |-> "none", indicators |-> <<>>, repeat |-> FALSE, matched |-> <<>>, added |-> 0,
         result |-> predict_next_stage([detected_techniques |-> <<>>,
                                        attack_timeline |-> <<>>, current_stage |-> 0])]

\* the list objects of the tracker: __init__ creates them once and no method
\* rebinds the attributes, append mutates them in place
ListRefs == {"self.detected_techniques", "self.attack_timeline"}

\* the present content of a list object
Deref(ref) ==
    IF ref = "self.detected_techniques" THEN detected_techniques
    ELSE attack_timeline

\* no report has been generated
NoReport == [generated |-> FALSE]

\* AttackChainTracker.generate_attack_report: the summary and the prediction
\* are built by the call; "detected_techniques" and "attack_timeline" are bound
\* to the tracker's own list objects.  at_generation keeps what the two lists
\* held when the report was returned (not a key of the source's dict)
generate_attack_report(t) ==
    [generated |-> TRUE,
     attack_summary |-> [total_techniques_detected |-> Len(t.detected_techniques),
                         current_stage |-> t.current_stage,
                         urgency |-> _calculate_urgency(t.current_stage)],
     detected_techniques |-> "self.detected_techniques",
     attack_timeline |-> "self.attack_timeline",
     predictions |-> predict_next_stage(t),
     at_generation |-> [detected_techniques |-> t.detected_techniques,
                        attack_timeline |-> t.attack_timeline]]


-----------------------------------------------------------------------------
(* MitigationEngine                                                        *)

\* _load_config: the default configuration, returned when the file is absent
default_config ==
    [kind |-> "dict",
     keys |-> {"critical_folders", "backup_location", "max_response_time",
               "auto_isolate", "auto_restore"},
     critical_folders |-> <<"Documents", "Desktop", "Pictures", "Videos", "Downloads">>,
     max_response_time |-> 10,
     auto_isolate |-> TRUE, auto_restore |-> TRUE,
     from_file |-> FALSE]     \* json.load returned it (not a key of the source's dict)

\* a configuration file that json.load accepts: a JSON object with the given
\* flags, an object with no keys at all, or a JSON array
ConfigFile(auto_isolate, auto_restore) ==
    [default_config EXCEPT !.auto_isolate = auto_isolate, !.auto_restore = auto_restore,
                           !.from_file = TRUE]
EmptyObjectConfig == [default_config EXCEPT !.keys = {}, !.from_file = TRUE]
ArrayConfig == [default_config EXCEPT !.kind = "list", !.keys = {}, !.from_file = TRUE]

Configs ==
    {default_config, ConfigFile(FALSE, FALSE), ConfigFile(TRUE, FALSE),
     ConfigFile(FALSE, TRUE), EmptyObjectConfig, ArrayConfig}

\* Faulty variant: every flag reads as set
ConfigFlagAlwaysSet(config, key) == TRUE

\* self.config.get(key) for a boolean key (None when the key is absent);
\* only called on a dict, see ConfigGetRaises
ConfigGet(config, key) ==
    /\ key \in config.keys
    /\ IF key = "auto_isolate" THEN config.auto_isolate ELSE config.auto_restore

\* self.config.get raises AttributeError when the loaded JSON is not an object
ConfigGetRaises(config) == config.kind # "dict"

\* self.config[key] raises KeyError / TypeError
ConfigItemRaises(config, key) == config.kind # "dict" \/ key \notin config.keys

\* a step result; op_failed records whether the underlying operation failed
\* (it is not a field of the source's dict)
StepResult(action, success, details, error, locked_folders, op_failed) ==
    [action |-> action, success |-> success, details |-> details, error |-> error,
     locked_folders |-> locked_folders, op_failed |-> op_failed]

\* Faulty variant: a process that is not there is reported as a failure
KillReportingAbsent(m, pid) ==
    IF pid # 0 /\ pid \in m.procs /\ m.kill = "ok"
    THEN StepResult("KILL_PROCESS", TRUE, "Killed process", "-", <<>>, FALSE)
    ELSE StepResult("KILL_PROCESS", FALSE, "-", "NoSuchProcess", <<>>, TRUE)

\* MitigationEngine.kill_malicious_process.  pid 0 stands for None; m.kill is
\* what killing a live process does: "ok", "vanishes" (NoSuchProcess) or
\* "denied" (AccessDenied / TimeoutExpired)
kill_malicious_process(m, pid) ==
    IF pid # 0 /\ pid \in m.procs
    THEN IF m.kill = "ok"
         THEN StepResult("KILL_PROCESS", TRUE, "Killed process", "-", <<>>, FALSE)
         ELSE IF m.kill = "vanishes"
         THEN StepResult("KILL_PROCESS", TRUE, "Process already terminated", "-", <<>>, FALSE)
         ELSE StepResult("KILL_PROCESS", FALSE, "-", "AccessDenied", <<>>, TRUE)
    ELSE StepResult("KILL_PROCESS", TRUE, "Process not found or already terminated",
                    "-", <<>>, FALSE)

\* the processes alive after kill_malicious_process
ProcsAfterKill(m, pid) ==
    IF pid # 0 /\ pid \in m.procs /\ m.kill \in {"ok", "vanishes"}
    THEN m.procs \ {pid} ELSE m.procs

\* folders_to_lock of lock_critical_folders
folders_to_lock(m) ==
    IF m.demo_mode THEN <<"Safe_Demo_Folder">> ELSE m.config.critical_folders

\* the for loop of lock_critical_folders from folder i on: the folders listed
\* as locked and whether the loop raised.  A folder is "present", "missing",
\* "locked" or "denied" (its permissions cannot be changed); os.chmod raises on
\* a denied folder, icacls run through subprocess.run does not.
RECURSIVE LockLoop(_, _, _, _)
LockLoop(m, folders, i, locked) ==
    IF i > Len(folders) THEN [locked |-> locked, raised |-> FALSE, silent |-> FALSE]
    ELSE LET f == folders[i]
         IN  IF m.fs[f] = "missing" THEN LockLoop(m, folders, i + 1, locked)
             ELSE IF m.fs[f] = "denied" /\ m.os_name # "nt"
             THEN [locked |-> locked, raised |-> TRUE, silent |-> FALSE]
             ELSE LET rest == LockLoop(m, folders, i + 1, Append(locked, f))
                  IN  [rest EXCEPT !.silent = @ \/ m.fs[f] = "denied"]

\* MitigationEngine.lock_critical_folders
lock_critical_folders(m) ==
    IF ~m.demo_mode /\ ConfigItemRaises(m.config, "critical_folders")
    THEN StepResult("LOCK_FOLDERS", FALSE, "-", "KeyError", <<>>, TRUE)
    ELSE LET walk == LockLoop(m, folders_to_lock(m), 1, <<>>)
         IN  IF walk.raised
             THEN StepResult("LOCK_FOLDERS", FALSE, "-", "PermissionError", walk.locked, TRUE)
             ELSE StepResult("LOCK_FOLDERS", TRUE, "Locked n folders", "-", walk.locked,
                             walk.silent)

\* the file system after lock_critical_folders: permissions changed on the
\* folders where the change took effect
FsAfterLock(m) ==
    IF ~m.demo_mode /\ ConfigItemRaises(m.config, "critical_folders") THEN m.fs
    ELSE LET locked == LockLoop(m, folders_to_lock(m), 1, <<>>).locked
         IN  [f \in DOMAIN m.fs |->
                IF m.fs[f] = "present" /\ \E i \in 1..Len(locked) : locked[i] = f
                THEN "locked" ELSE m.fs[f]]

\* MitigationEngine.isolate_network.  m.net_cmd is what the interface command
\* does: "ok", "fails" (non-zero exit status) or "missing" (no such binary:
\* subprocess.run raises FileNotFoundError)
isolate_network(m) ==
    IF m.demo_mode
    THEN StepResult("NETWORK_ISOLATION", TRUE, "Network isolation simulated (Demo Mode)",
                    "-", <<>>, FALSE)
    ELSE IF m.net_cmd = "missing" /\ m.os_name # "nt"
    THEN StepResult("NETWORK_ISOLATION", FALSE, "-", "FileNotFoundError", <<>>, TRUE)
    ELSE StepResult("NETWORK_ISOLATION", TRUE, "Network interfaces disabled", "-", <<>>,
                    m.net_cmd # "ok")

NetworkAfterIsolate(m) ==
    IF ~m.demo_mode /\ m.net_cmd = "ok" THEN FALSE ELSE m.network_up

\* MitigationEngine.restore_from_backup.  m.backup is the state of the backup
\* directory: "no_dir", "ok" or "unreadable" (glob raises)
restore_from_backup(m) ==
    IF ConfigItemRaises(m.config, "backup_location")
    THEN StepResult("BACKUP_RESTORE", FALSE, "-", "KeyError", <<>>, TRUE)
    ELSE IF m.backup = "no_dir"
    THEN StepResult("BACKUP_RESTORE", FALSE, "No backup directory found", "-", <<>>, TRUE)
    ELSE IF m.backup = "ok"
    THEN StepResult("BACKUP_RESTORE", TRUE, "Backup ready", "-", <<>>, FALSE)
    ELSE StepResult("BACKUP_RESTORE", FALSE, "-", "PermissionError", <<>>, TRUE)

\* results as execute_mitigation creates it
NewResults == [actions_taken |-> <<>>, status |-> "IN_PROGRESS", error |-> "-",
               has_response_time |-> FALSE]

\* MitigationEngine.__init__ together with the host it runs on
Engine(demo, os_name, config, kill, fs, net_cmd, backup) ==
    [pc |-> "idle", demo_mode |-> demo, os_name |-> os_name, config |-> config,
     procs |-> {1}, kill |-> kill, fs |-> fs, net_cmd |-> net_cmd, network_up |-> TRUE,
     backup |-> backup, threat_pid |-> 0, results |-> NewResults,
     response_log |-> <<>>, log_writes |-> 0, outcome |-> "none", returned |-> NewResults,
     runs |-> 0,
     pids |-> <<>>]      \* the pid of every execute_mitigation call so far (history)

FolderNames == {"Safe_Demo_Folder", "Documents", "Desktop", "Pictures", "Videos", "Downloads"}

\* states of the folders on the host
FileSystems ==
    {[f \in FolderNames |-> "present"],
     [f \in FolderNames |-> "missing"],
     [f \in FolderNames |-> IF f \in {"Desktop", "Videos"} THEN "missing" ELSE "present"],
     [f \in FolderNames |-> IF f \in {"Safe_Demo_Folder", "Desktop"} THEN "denied"
                            ELSE "present"]}

\* MitigationEngine() as the other components' sessions hold it
DefaultEngine ==
    Engine(TRUE, "posix", default_config, "ok", [f \in FolderNames |-> "present"], "ok",
           "no_dir")

\* execute_mitigation entered with threat_data["pid"] = pid: lines up to try
StartRun(m, pid) ==
    [m EXCEPT !.pc = "kill", !.threat_pid = pid, !.results = NewResults,
              !.outcome = "running", !.runs = @ + 1, !.pids = Append(@, pid)]

\* Faulty variant: the try block ends before the configuration is consulted
TryEndsAfterLock(pc) == pc \in {"kill", "lock"}

\* the statements execute_mitigation runs inside its try block
InTry(pc) == pc \in {"kill", "lock", "isolate", "restore", "complete"}

-----------------------------------------------------------------------------
(* Stage3ProtectionPipeline                                                *)

\* Stage3ProtectionPipeline.__init__, with an empty data/incidents directory.
\* now is the wall clock in ticks of 1/TicksPerSecond s; files maps the name
\* of each incident file to the package it holds; returned lists the packages
\* handed back by the completed calls (history); notified lists the alerts
\* passed to the NotificationManager
IdlePipeline ==
    [pc |-> "idle", now |-> 0, incident_count |-> 0, start_time |-> 0,
     incident_id |-> 0, beep_ok |-> FALSE, detected |-> <<>>, prediction |-> NoOp.result,
     files |-> <<>>, returned |-> <<>>, outcome |-> "none", in_flight |-> 0,
     notified |-> <<>>]

\* resolution of the wall clock: two ticks to the second, so that two calls can
\* fall into one second of strftime('%Y%m%d_%H%M%S')
TicksPerSecond == 2

\* incident_id = f"INC_{datetime.now().strftime('%Y%m%d_%H%M%S')}": the second
IncidentId(now) == now \div TicksPerSecond

\* detection_data handed over by Stage 1: nothing but defaults, one behavior,
\* and the detection of the Stage 3 self-test
Detections ==
    {[pid |-> 0, indicators |-> <<>>],
     [pid |-> 1, indicators |-> [k \in {"file_discovery"} |-> TRUE]],
     [pid |-> 1, indicators |->
        [k \in {"high_entropy", "file_discovery", "shadow_copy_deletion",
                "process_injection", "honeypot_hit", "cpu_spike"}
           |-> k # "process_injection"]]}

\* the response-time target respond_to_threat compares with, in seconds:
\* the literal 10, whatever the configuration says
ResponseTarget(config) == 10

\* time.sleep(1) of the simulated network isolation was executed by the run
SleptInIsolation(result) ==
    \E i \in 1..Len(result.actions_taken) :
        result.actions_taken[i].details = "Network isolation simulated (Demo Mode)"

\* Faulty variant: the status of the package follows the mitigation result
PackageReflectingOutcome(p, m, elapsed) ==
    [incident_id |-> p.incident_id,
     status |-> IF /\ m.returned.status = "SUCCESS"
                   /\ \A i \in 1..Len(m.returned.actions_taken) :
                         m.returned.actions_taken[i].success
                THEN "CONTAINED" ELSE "FAILED",
     total_response_time |-> elapsed,
     pid |-> m.threat_pid,
     detected_techniques |-> p.detected,
     current_stage |-> p.prediction.current_stage,
     urgency |-> p.prediction.urgency,
     predictions |-> p.prediction.predicted_techniques,
     mitigation_result |-> m.returned,
     target_met |-> elapsed < 10 * 2,
     seq |-> p.incident_count]

\* the response package built by respond_to_threat
ResponsePackage(p, m, elapsed) ==
    [incident_id |-> p.incident_id, status |-> "CONTAINED",
     total_response_time |-> elapsed,
     pid |-> m.threat_pid,
     detected_techniques |-> p.detected,
     current_stage |-> p.prediction.current_stage,
     urgency |-> p.prediction.urgency,
     predictions |-> p.prediction.predicted_techniques,
     mitigation_result |-> m.returned,
     target_met |-> elapsed < ResponseTarget(m.config) * TicksPerSecond,
     seq |-> p.incident_count]   \* which call built it (not a field of the source)

\* _save_incident_package: open(data/incidents/<incident_id>.json, 'w')
SaveIncident(files, package) ==
    [id \in DOMAIN files \cup {package.incident_id} |->
        IF id = package.incident_id THEN package ELSE files[id]]

-----------------------------------------------------------------------------
(* SpecDecision: the decision engines and their collaborators              *)

\* len(self.decoy_templates)
NumHoneypots == 8

\* monitoring_loop is iterating (start() has set is_running); responses counts
\* the respond_to_threat invocations made since the last tick was classified;
\* failed: a step of the last tick raised an exception
LoopStart == [active |-> TRUE, responses |-> 0, failed |-> FALSE]

\* no monitoring session
NoLoop == [active |-> FALSE, responses |-> 0, failed |-> FALSE]

\* how many decoys the environment tampers with in one run
MaxTampered == 3

Systems == {"stage1", "backend", "verify_fix"}

OtherInit ==
    /\ detected_techniques = <<>>
    /\ attack_timeline = <<>>
    /\ current_stage = 0
    /\ clock = 0
    /\ trk = NoOp
    /\ mit = DefaultEngine
    /\ pipe = IdlePipeline
    /\ feat = NoFeatures
    /\ report = NoReport
    /\ disk = NoDecoys

DecisionInit ==
    /\ system \in Systems
    /\ hpTotal = 0
    /\ hpModified = 0
    /\ mlAvailable \in BOOLEAN
    /\ demo_mode \in (IF system = "backend" THEN BOOLEAN ELSE {FALSE})
    /\ threat_level = "LOW"
    /\ call = NoCall
    /\ loop = LoopStart
    /\ OtherInit

\* HoneypotManager.deploy_all_honeypots, from start()
DeployHoneypots ==
    /\ system \in {"stage1", "backend"}
    /\ ~demo_mode
    /\ hpTotal = 0
    /\ hpTotal' = NumHoneypots
    /\ hpModified' = 0
    /\ UNCHANGED <<system, mlAvailable, demo_mode, threat_level, call, loop>>
    /\ UNCHANGED <<trackerVars, mit, pipe, feat, report, disk>>

\* HoneypotManager.check_integrity after k more decoys were overwritten:
\* metadata['modified'] = True for each of them, and it is never reset
CheckIntegrity(k) ==
    /\ system \in {"stage1", "backend"}
    /\ ~demo_mode
    /\ hpModified + k <= Min(hpTotal, MaxTampered)
    /\ hpModified' = hpModified + k
    /\ disk' = [disk EXCEPT !.overwritten = @ + k]
    /\ UNCHANGED <<system, hpTotal, mlAvailable, demo_mode, threat_level, call, loop>>
    /\ UNCHANGED <<trackerVars, mit, pipe, feat, report>>

\* one iteration of Stage1IntegratedSystem.monitoring_loop: the analysis; an
\* exception leaves the loop (only KeyboardInterrupt is caught)
Stage1Tick(file_events, process_data, d) ==
    /\ system = "stage1"
    /\ loop.active
    /\ call' = analyze_current_state(file_events, process_data, d)
    /\ loop' = [active |-> call'.outcome = "returned", responses |-> 0,
                failed |-> call'.outcome = "raised"]
    /\ threat_level' = IF call'.outcome = "returned" THEN call'.threat_level
                       ELSE threat_level
    /\ UNCHANGED <<system, hpTotal, hpModified, mlAvailable, demo_mode>>
    /\ UNCHANGED <<trackerVars, mit, pipe, feat, report, disk>>

\* one iteration of IntegratedBackend.monitoring_loop: get_system_state, then
\* write_status and collect_and_store_features, whose file writes succeed
\* (io_ok) or raise, which leaves the loop
BackendTick(process_data, d, sim_score, io_ok) ==
    /\ system = "backend"
    /\ loop.active
    /\ call' = get_system_state(process_data, d, sim_score)
    /\ loop' = [active |-> io_ok, responses |-> 0, failed |-> ~io_ok]
    /\ UNCHANGED <<system, hpTotal, hpModified, mlAvailable, demo_mode, threat_level>>
    /\ UNCHANGED <<trackerVars, mit, pipe, feat, report, disk>>

VerifyFix(d) ==
    /\ system = "verify_fix"
    /\ call' = verify_fix(d)
    /\ UNCHANGED <<system, hpTotal, hpModified, mlAvailable, demo_mode, threat_level, loop>>
    /\ UNCHANGED <<trackerVars, mit, pipe, feat, report, disk>>

DecisionNext ==
    \/ DeployHoneypots
    \/ \E k \in 1..MaxTampered : CheckIntegrity(k)
    \/ \E f \in FileBatches, p \in ProcessBatches, d \in DecisionValues : Stage1Tick(f, p, d)
    \/ \E p \in ProcessBatches, d \in DecisionValues, s \in SimulatedScores,
          io_ok \in BOOLEAN : BackendTick(p, d, s, io_ok)
    \/ \E d \in DecisionValues : VerifyFix(d)

SpecDecision == DecisionInit /\ [][DecisionNext]_vars

-----------------------------------------------------------------------------
(* SpecTick: whole iterations of the two monitoring loops, with the decoy  *)
(* files changing on disk between and during iterations                    *)

TickInit == DecisionInit /\ system \in {"stage1", "backend"}

\* telemetry of an iteration: nothing at all or the burst, no process or the
\* busy host, and a classifier output on either side of the decision boundary
TickFiles == {f \in FileBatches : Len(f) \in {0, 3}}
TickProcesses == {p \in ProcessBatches : Len(p) \in {0, 7}}
TickDecisions == {d \in DecisionValues : d \in {-41, 19}}

\* a process overwrites k decoy files (their hashes change)
OverwriteDecoys(k) ==
    /\ ~demo_mode
    /\ disk.overwritten + k <= MaxTampered
    /\ disk.overwritten + disk.deleted + k <= hpTotal
    /\ disk' = [disk EXCEPT !.overwritten = @ + k]
    /\ UNCHANGED <<system, hpTotal, hpModified, mlAvailable, demo_mode, threat_level,
                   call, loop>>
    /\ UNCHANGED <<trackerVars, mit, pipe, feat, report>>

\* a process deletes k intact decoy files
DeleteDecoys(k) ==
    /\ ~demo_mode
    /\ disk.deleted + k <= MaxTampered
    /\ disk.overwritten + disk.deleted + k <= hpTotal
    /\ disk' = [disk EXCEPT !.deleted = @ + k]
    /\ UNCHANGED <<system, hpTotal, hpModified, mlAvailable, demo_mode, threat_level,
                   call, loop>>
    /\ UNCHANGED <<trackerVars, mit, pipe, feat, report>>

\* one iteration of Stage1IntegratedSystem.monitoring_loop: check_integrity,
\* scan_processes, then analyze_current_state on the status the check left
Stage1Iteration(file_events, process_data, d) ==
    /\ system = "stage1"
    /\ loop.active
    /\ hpModified' = check_integrity(hpModified, disk).modified
    /\ disk' = [disk EXCEPT !.deleted_alerts = check_integrity(hpModified, disk).deleted_alerts]
    /\ call' = AnalyzeStatus(file_events, process_data, d,
                             [get_status EXCEPT !.compromised =
                                                   check_integrity(hpModified, disk).modified])
    /\ loop' = [active |-> call'.outcome = "returned", responses |-> 0,
                failed |-> call'.outcome = "raised"]
    /\ threat_level' = IF call'.outcome = "returned" THEN call'.threat_level
                       ELSE threat_level
    /\ UNCHANGED <<system, hpTotal, mlAvailable, demo_mode>>
    /\ UNCHANGED <<trackerVars, mit, pipe, feat, report>>

\* one iteration of IntegratedBackend.monitoring_loop: get_system_state,
\* write_status and collect_and_store_features (io_ok, or an exception that
\* leaves the loop), and only then, outside demo mode, check_integrity and
\* scan_processes
BackendIteration(process_data, d, sim_score, io_ok) ==
    /\ system = "backend"
    /\ loop.active
    /\ call' = get_system_state(process_data, d, sim_score)
    /\ loop' = [active |-> io_ok, responses |-> 0, failed |-> ~io_ok]
    /\ IF io_ok /\ ~demo_mode
       THEN /\ hpModified' = check_integrity(hpModified, disk).modified
            /\ disk' = [disk EXCEPT !.deleted_alerts =
                                       check_integrity(hpModified, disk).deleted_alerts]
       ELSE UNCHANGED <<hpModified, disk>>
    /\ UNCHANGED <<system, hpTotal, mlAvailable, demo_mode, threat_level>>
    /\ UNCHANGED <<trackerVars, mit, pipe, feat, report>>

TickNext ==
    \/ DeployHoneypots
    \/ \E k \in 1..MaxTampered : OverwriteDecoys(k)
    \/ \E k \in 1..MaxTampered : DeleteDecoys(k)
    \/ \E f \in TickFiles, p \in TickProcesses, d \in TickDecisions :
          Stage1Iteration(f, p, d)
    \/ \E p \in TickProcesses, d \in TickDecisions, s \in SimulatedScores,
          io_ok \in BOOLEAN : BackendIteration(p, d, s, io_ok)

SpecTick == TickInit /\ [][TickNext]_vars

-----------------------------------------------------------------------------
(* SpecTracker: one AttackChainTracker instance and its callers            *)

\* map_behavior_to_technique calls in one session
MaxCalls == 3

MappedKeys == {BehaviorTable[i][1] : i \in 1..Len(BehaviorTable)}
UnmappedKeys == {"honeypot_hit", "cpu_spike"}

\* indicator dicts handed to the tracker: up to two flags set, a flag that is
\* present but False, unmapped keys only, all six flags, and the detection of
\* the Stage 3 self-test
IndicatorDicts ==
    {[k \in S |-> TRUE] : S \in {S \in SUBSET MappedKeys : Cardinality(S) <= 2}}
    \cup {[k \in {"file_discovery", "high_entropy"} |-> k = "file_discovery"],
          [k \in MappedKeys |-> FALSE],
          [k \in UnmappedKeys |-> TRUE],
          [k \in MappedKeys |-> TRUE],
          [k \in {"high_entropy", "file_discovery", "shadow_copy_deletion",
                  "process_injection", "honeypot_hit", "cpu_spike"}
             |-> k # "process_injection"]}

DecisionIdle ==
    /\ system = "stage1"
    /\ hpTotal = 0
    /\ hpModified = 0
    /\ mlAvailable = TRUE
    /\ demo_mode = FALSE
    /\ threat_level = "LOW"
    /\ call = NoCall
    /\ loop = NoLoop
    /\ feat = NoFeatures
    /\ report = NoReport
    /\ disk = NoDecoys

TrackerInit ==
    /\ detected_techniques = <<>>
    /\ attack_timeline = <<>>
    /\ current_stage = 0
    /\ clock = 0
    /\ trk = NoOp
    /\ mit = DefaultEngine
    /\ pipe = IdlePipeline
    /\ DecisionIdle

\* one call of map_behavior_to_technique; datetime.now() has advanced
MapBehavior(indicators) ==
    /\ clock < MaxCalls
    /\ clock' = clock + 1
    /\ LET t == map_behavior_to_technique(Tracker, indicators, clock')
       IN  /\ detected_techniques' = t.detected_techniques
           /\ attack_timeline' = t.attack_timeline
           /\ current_stage' = t.current_stage
           /\ trk' = [op |-> "map", indicators |-> indicators,
                      repeat |-> (clock > 0 /\ indicators = trk.indicators),
                      matched |-> matched_techniques(indicators),
                      added |-> Len(t.detected_techniques) - Len(detected_techniques),
                      result |-> NoOp.result]
    /\ UNCHANGED <<system, hpTotal, hpModified, mlAvailable, demo_mode, threat_level,
                   call, mit, pipe, loop, feat, report, disk>>

\* one call of predict_next_stage
PredictNextStage ==
    /\ trk' = [op |-> "predict", indicators |-> trk.indicators, repeat |-> FALSE,
               matched |-> <<>>, added |-> 0,
               result |-> predict_next_stage(Tracker)]
    /\ UNCHANGED <<detected_techniques, attack_timeline, current_stage, clock>>
    /\ UNCHANGED <<system, hpTotal, hpModified, mlAvailable, demo_mode, threat_level,
                   call, mit, pipe, loop, feat, report, disk>>

TrackerNext ==
    \/ \E indicators \in IndicatorDicts : MapBehavior(indicators)
    \/ PredictNextStage

SpecTracker == TrackerInit /\ [][TrackerNext]_vars

\* technique ids handed to _record_technique directly: those of the pattern
\* table, and one that is not a key of ATTACK_CHAIN
UnknownTechnique == "T9999"
RecordedIds == {BehaviorTable[i][2] : i \in 1..Len(BehaviorTable)} \cup {UnknownTechnique}

\* one direct call of _record_technique; datetime.now() has advanced
RecordTechnique(technique_id) ==
    /\ clock < MaxCalls
    /\ clock' = clock + 1
    /\ LET t == _record_technique(Tracker, technique_id, clock')
       IN  /\ detected_techniques' = t.detected_techniques
           /\ attack_timeline' = t.attack_timeline
           /\ current_stage' = t.current_stage
           /\ trk' = [op |-> "record", indicators |-> <<>>, repeat |-> FALSE,
                      matched |-> <<technique_id>>,
                      added |-> Len(t.detected_techniques) - Len(detected_techniques),
                      result |-> NoOp.result]
    /\ UNCHANGED <<system, hpTotal, hpModified, mlAvailable, demo_mode, threat_level,
                   call, mit, pipe, loop, feat, report, disk>>

RecordNext ==
    \/ \E indicators \in IndicatorDicts : MapBehavior(indicators)
    \/ PredictNextStage
    \/ \E technique_id \in RecordedIds : RecordTechnique(technique_id)

\* SpecRecord: the tracker with _record_technique also called directly
SpecRecord == TrackerInit /\ [][RecordNext]_vars

\* one call of generate_attack_report; the caller keeps the dict
GenerateReport ==
    /\ report' = generate_attack_report(Tracker)
    /\ trk' = [op |-> "report", indicators |-> trk.indicators, repeat |-> FALSE,
               matched |-> <<>>, added |-> 0,
               result |-> predict_next_stage(Tracker)]
    /\ UNCHANGED <<detected_techniques, attack_timeline, current_stage, clock>>
    /\ UNCHANGED <<system, hpTotal, hpModified, mlAvailable, demo_mode, threat_level,
                   call, mit, pipe, loop, feat, disk>>

\* indicator dicts of the reporting sessions: those that set at most one
\* mapped flag (the empty dict, all flags False and unmapped keys among them)
ReportDicts ==
    {d \in IndicatorDicts : Cardinality({k \in DOMAIN d \cap MappedKeys : d[k]}) <= 1}

ReportNext ==
    \/ \E indicators \in ReportDicts : MapBehavior(indicators)
    \/ PredictNextStage
    \/ GenerateReport

\* SpecReport: the tracker with a caller that keeps the reports it asked for
SpecReport == TrackerInit /\ [][ReportNext]_vars

-----------------------------------------------------------------------------
(* SpecMitigation: one MitigationEngine and the calls of execute_mitigation *)

\* execute_mitigation calls in one session
MaxRuns == 2

\* threat_data["pid"]: None (0), a live process, a pid that does not exist
Pids == {0, 1, 2}

MitigationInit ==
    /\ mit \in {Engine(demo, os_name, config, kill, fs, net_cmd, backup) :
                  demo \in BOOLEAN, os_name \in {"posix", "nt"}, config \in Configs,
                  kill \in {"ok", "vanishes", "denied"}, fs \in FileSystems,
                  net_cmd \in {"ok", "fails", "missing"},
                  backup \in {"no_dir", "ok", "unreadable"}}
    /\ detected_techniques = <<>>
    /\ attack_timeline = <<>>
    /\ current_stage = 0
    /\ clock = 0
    /\ trk = NoOp
    /\ pipe = IdlePipeline
    /\ DecisionIdle

MitFrame ==
    UNCHANGED <<system, hpTotal, hpModified, mlAvailable, demo_mode, threat_level, call,
                trackerVars, pipe, loop, feat, report, disk>>

\* execute_mitigation up to the try statement
ExecuteMitigation(pid) ==
    /\ mit.pc = "idle"
    /\ mit.runs < MaxRuns
    /\ mit' = StartRun(mit, pid)
    /\ MitFrame

\* an exception raised by the statement at mit.pc: the except clause if the
\* statement is inside the try block, else it leaves execute_mitigation
Raise(error) ==
    IF InTry(mit.pc)
    THEN [mit EXCEPT !.pc = "log", !.results.status = "FAILED", !.results.error = error]
    ELSE [mit EXCEPT !.pc = "idle", !.outcome = "raised"]

\* Step 1
KillStep ==
    /\ mit.pc = "kill"
    /\ mit' = [mit EXCEPT !.pc = "lock",
                          !.results.actions_taken =
                              Append(@, kill_malicious_process(mit, mit.threat_pid)),
                          !.procs = ProcsAfterKill(mit, mit.threat_pid)]
    /\ MitFrame

\* Step 2
LockStep ==
    /\ mit.pc = "lock"
    /\ mit' = [mit EXCEPT !.pc = "isolate",
                          !.results.actions_taken = Append(@, lock_critical_folders(mit)),
                          !.fs = FsAfterLock(mit)]
    /\ MitFrame

\* Step 3
IsolateStep ==
    /\ mit.pc = "isolate"
    /\ mit' = IF ConfigGetRaises(mit.config) THEN Raise("AttributeError")
              ELSE IF ConfigGet(mit.config, "auto_isolate")
              THEN [mit EXCEPT !.pc = "restore",
                               !.results.actions_taken = Append(@, isolate_network(mit)),
                               !.network_up = NetworkAfterIsolate(mit)]
              ELSE [mit EXCEPT !.pc = "restore"]
    /\ MitFrame

\* Step 4
RestoreStep ==
    /\ mit.pc = "restore"
    /\ mit' = IF ConfigGetRaises(mit.config) THEN Raise("AttributeError")
              ELSE IF ConfigGet(mit.config, "auto_restore")
              THEN [mit EXCEPT !.pc = "complete",
                               !.results.actions_taken = Append(@, restore_from_backup(mit))]
              ELSE [mit EXCEPT !.pc = "complete"]
    /\ MitFrame

\* response time and status, the last statements of the try block
Complete ==
    /\ mit.pc = "complete"
    /\ mit' = [mit EXCEPT !.pc = "log", !.results.has_response_time = TRUE,
                          !.results.status = "SUCCESS"]
    /\ MitFrame

\* self._log_response(results); return results
LogResponse ==
    /\ mit.pc = "log"
    /\ mit' = [mit EXCEPT !.pc = "idle", !.response_log = Append(@, mit.results),
                          !.log_writes = @ + 1, !.returned = mit.results,
                          !.outcome = "returned"]
    /\ MitFrame

MitigationNext ==
    \/ \E pid \in Pids : ExecuteMitigation(pid)
    \/ KillStep
    \/ LockStep
    \/ IsolateStep
    \/ RestoreStep
    \/ Complete
    \/ LogResponse

SpecMitigation == MitigationInit /\ [][MitigationNext]_vars

-----------------------------------------------------------------------------
(* SpecPipeline: one Stage3ProtectionPipeline and its synchronous caller   *)

\* a configuration file that lowers the response-time target to 5 s
ShortTargetConfig == [ConfigFile(FALSE, FALSE) EXCEPT !.max_response_time = 5]

\* MitigationEngine() of the pipeline: demo mode, configuration from the file
PipelineEngines ==
    {Engine(TRUE, "nt", config, "ok", [f \in FolderNames |-> "present"], "ok", "no_dir") :
        config \in {default_config, ConfigFile(FALSE, FALSE), ShortTargetConfig, ArrayConfig}}

\* time between the return of one call and the next call, in ticks
Gaps == {0, 2}

\* time the steps of one call take beyond the fixed delays, in ticks
ExtraTimes == {0, 14, 20}

PipelineInit ==
    /\ mit \in PipelineEngines
    /\ pipe = IdlePipeline
    /\ detected_techniques = <<>>
    /\ attack_timeline = <<>>
    /\ current_stage = 0
    /\ clock = 0
    /\ trk = NoOp
    /\ DecisionIdle

\* Faulty variant: the caller does not wait for the call it made
CallerNeverWaits(p) == TRUE

\* the caller is a single thread that calls respond_to_threat and waits for
\* its return: it is at the call statement only when no call is in progress
CallerReady(p) == p.pc = "idle"

DecisionFrame ==
    UNCHANGED <<system, hpTotal, hpModified, mlAvailable, demo_mode, threat_level, call,
                feat, report, disk>>

\* respond_to_threat from its entry to the call of execute_mitigation.
\* gap: time since the previous return; beep_ok: winsound.Beep sounded (1 s)
\* or raised, which is swallowed
RespondToThreat(detection_data, gap, beep_ok) ==
    /\ CallerReady(pipe)
    /\ pipe.incident_count < MaxRuns
    /\ clock' = clock + 1
    /\ LET start == pipe.now + gap
           t == map_behavior_to_technique(Tracker, detection_data.indicators, clock')
           prediction == predict_next_stage(t)
           entered == [pipe EXCEPT !.now = start, !.start_time = start,
                                   !.incident_id = IncidentId(start),
                                   !.incident_count = @ + 1, !.beep_ok = beep_ok,
                                   !.notified = Append(@, "alert_threat_detected"),
                                   !.detected = matched_techniques(detection_data.indicators),
                                   !.prediction = prediction]
       IN  /\ detected_techniques' = t.detected_techniques
           /\ attack_timeline' = t.attack_timeline
           /\ current_stage' = t.current_stage
           /\ trk' = [op |-> "predict", indicators |-> detection_data.indicators,
                      repeat |-> FALSE, matched |-> <<>>, added |-> 0,
                      result |-> prediction]
           /\ IF prediction.has_stage
              THEN /\ pipe' = [entered EXCEPT !.pc = "mitigating", !.outcome = "running",
                                              !.in_flight = @ + 1]
                   /\ mit' = StartRun(mit, detection_data.pid)
              ELSE \* prediction['current_stage']: KeyError leaves respond_to_threat
                   /\ pipe' = [entered EXCEPT !.outcome = "raised"]
                   /\ mit' = mit
    /\ loop' = [loop EXCEPT !.responses = Min(@ + 1, MaxRuns)]
    /\ DecisionFrame

\* respond_to_threat after execute_mitigation has returned: reports, response
\* package, _save_incident_package, return
CompleteResponse(extra) ==
    /\ pipe.pc = "mitigating"
    /\ mit.pc = "idle"
    /\ mit.outcome = "returned"
    /\ LET elapsed == (IF pipe.beep_ok THEN TicksPerSecond ELSE 0)
                        + (IF SleptInIsolation(mit.returned) THEN TicksPerSecond ELSE 0)
                        + extra
           package == ResponsePackage(pipe, mit, elapsed)
       IN  pipe' = [pipe EXCEPT !.pc = "idle", !.now = pipe.start_time + elapsed,
                                !.files = SaveIncident(@, package),
                                !.returned = Append(@, package),
                                !.notified =
                                    IF package.status = "CONTAINED"
                                    THEN Append(@, "alert_mitigation_success") ELSE @,
                                !.outcome = "returned", !.in_flight = @ - 1]
    /\ UNCHANGED <<trackerVars, mit, loop>>
    /\ DecisionFrame

PipelineNext ==
    \/ \E detection_data \in Detections, gap \in Gaps, beep_ok \in BOOLEAN :
          RespondToThreat(detection_data, gap, beep_ok)
    \/ KillStep
    \/ LockStep
    \/ IsolateStep
    \/ RestoreStep
    \/ Complete
    \/ LogResponse
    \/ \E extra \in ExtraTimes : CompleteResponse(extra)

SpecPipeline == PipelineInit /\ [][PipelineNext]_vars

-----------------------------------------------------------------------------
(* SpecNormalize: FeatureExtractor.normalize_features on arbitrary vectors *)

\* how many ceilings above its ceiling a raw value may lie
Overshoot == 3

\* raw values of feature i, in 1/Unit: below zero, zero, inside the range, at
\* the ceiling, just above it and far above it
RawSamples(i) ==
    LET c == Ceiling(i) * Unit
    IN  {-c, -1, 0, 1, c \div 2, c, c + 1, Overshoot * c}

\* raw vectors: a quiet, a half-range or a saturated vector with two of its
\* components replaced by samples
RawVectors ==
    {[i \in 1..Len(MaxValues) |->
         IF i = j THEN a ELSE IF i = k THEN b
         ELSE IF base = "quiet" THEN 0
         ELSE IF base = "half" THEN (Ceiling(i) * Unit) \div 2
         ELSE Ceiling(i) * Unit] :
       <<j, a, k, b, base>> \in
         {t \in (1..Len(MaxValues)) \X (UNION {RawSamples(i) : i \in 1..Len(MaxValues)})
                  \X (1..Len(MaxValues)) \X (UNION {RawSamples(i) : i \in 1..Len(MaxValues)})
                  \X {"quiet", "half", "full"} :
              t[1] < t[3] /\ t[2] \in RawSamples(t[1]) /\ t[4] \in RawSamples(t[3])}}

NormalizeInit ==
    /\ feat \in {[raw |-> v, normalized |-> <<>>] : v \in RawVectors}
    /\ detected_techniques = <<>>
    /\ attack_timeline = <<>>
    /\ current_stage = 0
    /\ clock = 0
    /\ trk = NoOp
    /\ mit = DefaultEngine
    /\ pipe = IdlePipeline
    /\ system = "stage1"
    /\ hpTotal = 0
    /\ hpModified = 0
    /\ mlAvailable = TRUE
    /\ demo_mode = FALSE
    /\ threat_level = "LOW"
    /\ call = NoCall
    /\ loop = NoLoop
    /\ report = NoReport
    /\ disk = NoDecoys

\* one call of normalize_features
NormalizeFeatures ==
    /\ feat.normalized = <<>>
    /\ feat' = [feat EXCEPT !.normalized = normalize_features(feat.raw)]
    /\ UNCHANGED <<system, hpTotal, hpModified, mlAvailable, demo_mode, threat_level,
                   call, trackerVars, mit, pipe, loop, report, disk>>

NormalizeNext == NormalizeFeatures

SpecNormalize == NormalizeInit /\ [][NormalizeNext]_vars

-----------------------------------------------------------------------------
(* Claims about the decision engines (checked under SpecDecision)          *)

\* the idle threshold of the implementation that made the call, in the units
\* of the activity mass it compares
IdleThresholdOf(impl) ==
    IF impl = "backend" THEN IDLE_THRESHOLD
    ELSE IF impl = "verify_fix" THEN Unit \div 2
    ELSE Stage1IdleThreshold

\* the threat level as the specification defines it
SpecThreatLevel(compromised, prediction, score) ==
    IF compromised > 0 \/ prediction = "RANSOMWARE" \/ score > 70 THEN "CRITICAL"
    ELSE IF score > 50 THEN "HIGH"
    ELSE IF score > 30 THEN "MEDIUM"
    ELSE "LOW"

\* C1: whenever the decoy status has compromised > 0, the verdict a decision
\* engine returns is RANSOMWARE with threat_score >= 90 and level CRITICAL,
\* and the score is never below the score the classifier produced.
C1_DecoyOverride ==
    (call.outcome = "returned" /\ call.impl \in {"stage1", "backend"}
        /\ call.compromised > 0)
    => /\ call.prediction = "RANSOMWARE"
       /\ call.threat_score >= 90
       /\ call.threat_level = "CRITICAL"
       /\ call.threat_score >= call.ml_score

\* C2: empty file events, empty process data and decoy status {8, 0} give
\* is_idle, NORMAL, score 5 and LOW, and the classifier is not consulted.
C2_EmptyTelemetryIsIdle ==
    (call.outcome # "none" /\ call.impl \in {"stage1", "backend"} /\ ~call.demo
        /\ call.empty_telemetry /\ call.total_honeypots = 8 /\ call.compromised = 0)
    => /\ call.outcome = "returned"
       /\ call.is_idle
       /\ ~call.consulted
       /\ call.prediction = "NORMAL"
       /\ call.threat_score = 5
       /\ call.threat_level = "LOW"

\* C3: with the classifier unavailable, a tick below the idle threshold
\* returns NORMAL / 5 / idle without calling the classifier, and a tick at or
\* above the threshold surfaces an error: no verdict is returned for it.
C3_ClassifierFailureSurfaced ==
    (call.outcome # "none" /\ call.impl \in {"stage1", "backend"}
        /\ ~call.demo /\ ~mlAvailable /\ call.compromised = 0)
    => IF call.feature_sum < IdleThresholdOf(call.impl)
       THEN /\ call.outcome = "returned"
            /\ ~call.consulted
            /\ call.is_idle
            /\ call.prediction = "NORMAL"
            /\ call.threat_score = 5
       ELSE call.outcome = "raised"

-----------------------------------------------------------------------------
(* Claims about AttackChainTracker (checked under SpecTracker)             *)

UrgencyRank(stage) ==
    LET u == _calculate_urgency(stage)
    IN  IF u = "LOW" THEN 0 ELSE IF u = "MEDIUM" THEN 1 ELSE IF u = "HIGH" THEN 2 ELSE 3

\* C5: current_stage never decreases over the life of a tracker, whatever
\* behaviors are recorded and in whatever order; the urgency derived from it
\* therefore never downgrades.
C5_StageMonotonic ==
    [][/\ current_stage' >= current_stage
       /\ UrgencyRank(current_stage') >= UrgencyRank(current_stage)]_vars

\* a technique of an earlier stage has just been recorded after a later one
C5_Witness ==
    /\ trk.op = "map"
    /\ trk.added > 0
    /\ detected_techniques[Len(detected_techniques)].stage < current_stage

NoDuplicateIds(records) ==
    \A i, j \in 1..Len(records) : records[i].id = records[j].id => i = j

\* C6: recording is idempotent by technique id: no id is ever listed twice in
\* detected_techniques or attack_timeline, and a map_behavior_to_technique call
\* with the same indicator dict as the preceding one leaves both lists (records
\* and their timestamps) and current_stage exactly as they were.
C6_RecordingIdempotent ==
    /\ [](NoDuplicateIds(detected_techniques) /\ NoDuplicateIds(attack_timeline))
    /\ [][(clock > 0 /\ trk'.op = "map" /\ trk'.indicators = trk.indicators)
            => UNCHANGED <<detected_techniques, attack_timeline, current_stage>>]_vars

\* the same non-trivial indicator dict has just been presented a second time
C6_Witness ==
    /\ trk.op = "map"
    /\ trk.repeat
    /\ trk.matched # <<>>
    /\ trk.added = 0
    /\ Len(detected_techniques) >= Len(trk.matched)

\* C7: on a fresh tracker, file_discovery, shadow_copy_deletion and
\* high_entropy recorded by three successive calls give current_stage 6, then
\* 7, then 8, and the prediction made after the third includes T1657.
C7_StageSixSevenEight ==
    LET ids == Ids(detected_techniques)
        stamps == [i \in 1..Len(detected_techniques) |-> detected_techniques[i].timestamp]
    IN  /\ (ids = <<"T1083">> /\ stamps = <<1>>) => current_stage = 6
        /\ (ids = <<"T1083", "T1490">> /\ stamps = <<1, 2>>) => current_stage = 7
        /\ (ids = <<"T1083", "T1490", "T1486">> /\ stamps = <<1, 2, 3>>)
              => /\ current_stage = 8
                 /\ \E i \in 1..Len(predict_next_stage(Tracker).predicted_techniques) :
                        predict_next_stage(Tracker).predicted_techniques[i] = "T1657"
                 /\ trk.op = "predict" => trk.result = predict_next_stage(Tracker)

\* the three calls were made and predict_next_stage was then called
C7_Witness ==
    /\ Ids(detected_techniques) = <<"T1083", "T1490", "T1486">>
    /\ \A i \in 1..3 : detected_techniques[i].timestamp = i
    /\ trk.op = "predict"
    /\ trk.result.predicted_techniques = <<"T1657">>
    /\ current_stage = 8

-----------------------------------------------------------------------------
(* Claims about MitigationEngine (checked under SpecMitigation)            *)

ActionNames(result) == [i \in 1..Len(result.actions_taken) |-> result.actions_taken[i].action]

IsPrefix(s, t) == Len(s) <= Len(t) /\ \A i \in 1..Len(s) : s[i] = t[i]

\* a flag is set when the loaded configuration is an object holding it as true
FlagSet(config, key) ==
    /\ config.kind = "dict"
    /\ key \in config.keys
    /\ (key = "auto_isolate" => config.auto_isolate)
    /\ (key = "auto_restore" => config.auto_restore)

ConfiguredSteps(config) ==
    <<"KILL_PROCESS", "LOCK_FOLDERS">>
      \o (IF FlagSet(config, "auto_isolate") THEN <<"NETWORK_ISOLATION">> ELSE <<>>)
      \o (IF FlagSet(config, "auto_restore") THEN <<"BACKUP_RESTORE">> ELSE <<>>)

\* the results of the run in progress (or of the last one) and all logged ones
AllResults == {mit.results} \cup {mit.response_log[i] : i \in 1..Len(mit.response_log)}

\* C8: the steps run one after another in the order KILL_PROCESS, LOCK_FOLDERS,
\* NETWORK_ISOLATION iff auto_isolate is set, BACKUP_RESTORE iff auto_restore is
\* set: at every moment actions_taken is a prefix of that sequence (so each
\* action appears at most once and termination precedes isolation), and a run
\* that completes has taken exactly that sequence - two actions when both flags
\* are false.
C8_FixedStepOrder ==
    \A r \in AllResults :
        /\ IsPrefix(ActionNames(r), ConfiguredSteps(mit.config))
        /\ r.status = "SUCCESS" => ActionNames(r) = ConfiguredSteps(mit.config)
        /\ (r.status = "SUCCESS" /\ ~FlagSet(mit.config, "auto_isolate")
              /\ ~FlagSet(mit.config, "auto_restore")) => Len(r.actions_taken) = 2

\* a run with both flags false has returned
C8_Witness ==
    /\ mit.outcome = "returned"
    /\ mit.config = ConfigFile(FALSE, FALSE)
    /\ mit.returned.status = "SUCCESS"
    /\ ActionNames(mit.returned) = <<"KILL_PROCESS", "LOCK_FOLDERS">>

\* C9: a step whose underlying operation raises or cannot be performed returns
\* success = false with an error or details field; the failure is not
\* propagated and the later configured steps still run and are appended.
C9_FailedStepReported ==
    /\ mit.outcome # "raised"
    /\ \A r \in AllResults :
          /\ \A i \in 1..Len(r.actions_taken) :
                r.actions_taken[i].op_failed
                  => /\ ~r.actions_taken[i].success
                     /\ (r.actions_taken[i].error # "-" \/ r.actions_taken[i].details # "-")
          /\ (r.status = "SUCCESS" => ActionNames(r) = ConfiguredSteps(mit.config))

GoneOrGoing(m, pid) == pid = 0 \/ pid \notin m.procs \/ m.kill = "vanishes"

-----------------------------------------------------------------------------
(* Claims about Stage3ProtectionPipeline (checked under SpecPipeline)      *)

\* C12: every completed respond_to_threat call has an incident record of its
\* own - there are as many incident files as completed calls - and the record
\* persisted for a call still holds the package that call returned, whatever
\* calls came later and however close in time.
C12_IncidentRecordsKept ==
    /\ Cardinality(DOMAIN pipe.files) = Len(pipe.returned)
    /\ \A k \in 1..Len(pipe.returned) :
          /\ pipe.returned[k].incident_id \in DOMAIN pipe.files
          /\ pipe.files[pipe.returned[k].incident_id] = pipe.returned[k]

-----------------------------------------------------------------------------
(* Claims about the monitoring loops (checked under SpecDecision)          *)

\* a verdict the loops treat as a threat: RANSOMWARE, or threat level CRITICAL
Threatening(c) == c.prediction = "RANSOMWARE" \/ c.threat_level = "CRITICAL"

\* a step of a monitoring loop: the verdict or the loop's bookkeeping changes
TickStep == system \in {"stage1", "backend"} /\ <<call, loop>>' # <<call, loop>>

\* C13: in a monitoring session every threatening tick (RANSOMWARE or CRITICAL)
\* is followed, before the next tick is classified, by exactly one Stage 3
\* invocation, and a tick that is not threatening by none: when a tick starts,
\* the number of Stage 3 responses made since the previous tick's verdict is 1
\* if that verdict was threatening and 0 otherwise.
C13_ThreatInvokesStage3 ==
    [][(TickStep /\ call.outcome = "returned")
          => loop.responses = (IF Threatening(call) THEN 1 ELSE 0)]_vars

-----------------------------------------------------------------------------
(* Claims about normalize_features (checked under SpecNormalize)           *)

\* clip(value / ceiling, 0, 1) of feature i, in 1/One
ClippedRatio(i, value) ==
    LET c == (IF MaxValues[i] = 0 THEN 1 ELSE MaxValues[i]) * Unit
    IN  IF value <= 0 THEN 0
        ELSE IF value >= c THEN One
        ELSE (value * One) \div c

\* C14: for every raw 15-dimensional vector, negative and above-ceiling values
\* included, normalize_features returns 15 values, each in [0, 1] and equal to
\* clip(value / ceiling, 0, 1) for the fixed ceilings, so that the activity
\* mass (the sum of the absolute values) lies in [0, 15].
C14_NormalizedInUnitRange ==
    feat.normalized # <<>> =>
       /\ Len(feat.raw) = 15
       /\ Len(feat.normalized) = 15
       /\ \A i \in 1..15 :
             /\ feat.normalized[i] >= 0
             /\ feat.normalized[i] <= One
             /\ feat.normalized[i] = ClippedRatio(i, feat.raw[i])
       /\ feature_sum(feat.normalized) >= 0
       /\ feature_sum(feat.normalized) <= 15 * One

C14_Witness ==
    /\ feat.normalized # <<>>
    /\ \E i, j, k \in 1..15 :
          /\ feat.raw[i] < 0 /\ feat.normalized[i] = 0
          /\ feat.raw[j] > Ceiling(j) * Unit /\ feat.normalized[j] = One
          /\ feat.normalized[k] > 0 /\ feat.normalized[k] < One

-----------------------------------------------------------------------------
(* Claims about repeated decision-engine calls (checked under SpecDecision) *)

\* what a decision-engine call hands to its caller
VerdictOf(c) == <<c.outcome, c.prediction, c.threat_score, c.threat_level, c.is_idle>>

\* the inputs of a decision-engine call, as the call recorded them
InputsOf(c) == <<c.impl, c.demo, c.empty_telemetry, c.feature_sum, c.compromised,
                 c.total_honeypots, c.consulted, c.ml_prediction, c.ml_score>>

\* C15: two decision-engine calls with the same normalised vector, the same
\* decoy status and the same classifier output return identical verdicts
\* (prediction, threat_score, threat_level, is_idle), whatever state an earlier
\* tick left behind (self.threat_level) and whatever a random source draws:
\* a backend call on given telemetry and classifier output returns one verdict
\* for all draws, and two consecutive calls that saw the same inputs returned
\* the same verdict.
C15_SameInputsSameVerdict ==
    /\ [](system = "backend" =>
            \A p \in ProcessBatches, d \in DecisionValues,
               s1 \in SimulatedScores, s2 \in SimulatedScores :
               VerdictOf(get_system_state(p, d, s1)) = VerdictOf(get_system_state(p, d, s2)))
    /\ [][(call.outcome # "none" /\ InputsOf(call') = InputsOf(call))
             => VerdictOf(call') = VerdictOf(call)]_vars

\* C16: a monitoring tick in which a step raises (decoy check, process scan,
\* classification, status write, feature collection) is logged and the loop
\* continues: after a failing tick the loop is still iterating, so that a later
\* tick executes.
C16_LoopSurvivesFailure == loop.failed => loop.active

-----------------------------------------------------------------------------
(* Claims about overlapping responses (checked under SpecPipeline)         *)

-----------------------------------------------------------------------------
(* Claims about the response-time target (checked under SpecPipeline)      *)

\* the response-time target of a configuration, in seconds: max_response_time,
\* 10 when the configuration does not give one
ConfiguredTarget(config) ==
    IF config.kind = "dict" /\ "max_response_time" \in config.keys
    THEN config.max_response_time
    ELSE 10

\* C18: target_met is true exactly when the elapsed time of the response is
\* below the response-time target, which is taken from the configuration (10 s
\* by default); the target is only reported: a response whose mitigation
\* succeeded has run all configured steps even when it missed the target.
C18_TargetFromConfiguration ==
    \A k \in 1..Len(pipe.returned) :
       LET package == pipe.returned[k]
       IN  /\ package.target_met
                <=> package.total_response_time
                      < ConfiguredTarget(mit.config) * TicksPerSecond
           /\ package.mitigation_result.status = "SUCCESS"
                => ActionNames(package.mitigation_result) = ConfiguredSteps(mit.config)

-----------------------------------------------------------------------------
(* Claims about _record_technique called directly (checked under SpecRecord) *)

\* C19: recording a technique id that is not in the technique graph raises no
\* error and is ignored: the call leaves detected_techniques, attack_timeline
\* and current_stage unchanged.
C19_UnknownTechniqueIgnored ==
    [][(trk'.op = "record" /\ clock' # clock
          /\ trk'.matched[1] \notin DOMAIN ATTACK_CHAIN)
            => UNCHANGED <<detected_techniques, attack_timeline, current_stage>>]_vars

-----------------------------------------------------------------------------
(* Claims about lock_critical_folders (checked under SpecMitigation)       *)

\* the elements of a sequence
Elems(s) == {s[i] : i \in 1..Len(s)}

\* the run in progress has executed lock_critical_folders on a folder list
LockStepDone ==
    /\ Len(mit.results.actions_taken) >= 2
    /\ mit.results.actions_taken[2].action = "LOCK_FOLDERS"
    /\ (mit.demo_mode \/ ~ConfigItemRaises(mit.config, "critical_folders"))

\* C20: lock_critical_folders attempts every folder of its folder set: a folder
\* that cannot be locked does not stop the attempt on the others (no folder
\* that exists and can be locked is left unlocked), and the step result
\* reports the folders actually locked: locked_folders holds exactly the
\* folders on which the protection was applied.
C20_EveryFolderAttempted ==
    LockStepDone =>
       LET lock_result == mit.results.actions_taken[2]
           folders == Elems(folders_to_lock(mit))
       IN  /\ \A f \in folders : mit.fs[f] # "present"
           /\ \A f \in Elems(lock_result.locked_folders) : mit.fs[f] = "locked"
           /\ Elems(lock_result.locked_folders) = {f \in folders : mit.fs[f] = "locked"}

-----------------------------------------------------------------------------
(* Claims about the configuration (checked under SpecMitigation)           *)

\* the keys the mitigation steps read from the configuration
RequiredKeys == {"critical_folders", "backup_location", "auto_isolate", "auto_restore"}

\* C21: a missing or invalid configuration is fatal at startup: no mitigation
\* run ever starts on an engine whose configuration was not loaded from the
\* file (silently defaulted), is not a JSON object or lacks a required key.
C21_NoRunWithoutConfiguration ==
    mit.runs > 0 =>
       /\ mit.config.from_file
       /\ mit.config.kind = "dict"
       /\ RequiredKeys \subseteq mit.config.keys

-----------------------------------------------------------------------------
(* Claims about attack reports (checked under SpecReport)                  *)

\* what a reader of the held report finds under a list key
ReportList(key) ==
    IF key = "detected_techniques" THEN Deref(report.detected_techniques)
    ELSE Deref(report.attack_timeline)

\* C22: the report returned by generate_attack_report is a snapshot: its
\* detected_techniques and attack_timeline still read as they did when the
\* report was generated, and its predictions are those of that moment,
\* whatever map_behavior_to_technique calls were made since.
C22_ReportIsSnapshot ==
    report.generated =>
       /\ ReportList("detected_techniques") = report.at_generation.detected_techniques
       /\ ReportList("attack_timeline") = report.at_generation.attack_timeline
       /\ report.predictions
            = predict_next_stage([detected_techniques |-> report.at_generation.detected_techniques,
                                  attack_timeline |-> report.at_generation.attack_timeline,
                                  current_stage |-> report.attack_summary.current_stage])

-----------------------------------------------------------------------------
(* Claims about predictions (checked under SpecTracker)                    *)

\* min(0.95, 0.5 + 0.08 * stage), in hundredths
SpecConfidence(stage) == IF 50 + 8 * stage > 95 THEN 95 ELSE 50 + 8 * stage

SpecUrgency(stage) ==
    CASE stage >= 7 -> "CRITICAL"
      [] stage >= 5 /\ stage < 7 -> "HIGH"
      [] stage >= 3 /\ stage < 5 -> "MEDIUM"
      [] OTHER -> "LOW"

\* C23: with at least one detected technique predict_next_stage returns the
\* next-technique set of the most recently recorded technique, confidence
\* min(0.95, 0.5 + 0.08 * current_stage) - never above 0.95, 0.95 from stage 6
\* on, non-decreasing in the stage - and urgency CRITICAL from stage 7, HIGH
\* from 5, MEDIUM from 3, else LOW; with no detected technique it returns no
\* predictions and confidence 0.0.
C23_PredictionFromLatest ==
    trk.op = "predict" =>
       IF detected_techniques = <<>>
       THEN trk.result.predicted_techniques = <<>> /\ trk.result.confidence = 0
       ELSE LET latest == detected_techniques[Len(detected_techniques)].id
            IN  /\ trk.result.predicted_techniques = ATTACK_CHAIN[latest].next_stages
                /\ trk.result.confidence = SpecConfidence(current_stage)
                /\ trk.result.confidence <= 95
                /\ current_stage >= 6 => trk.result.confidence = 95
                /\ \A lower \in 0..current_stage :
                      SpecConfidence(lower) <= trk.result.confidence
                /\ trk.result.urgency = SpecUrgency(current_stage)

\* a prediction made at stage 7 from T1490, recorded after the stage 3 script
\* execution
C23_Witness ==
    /\ trk.op = "predict"
    /\ Ids(detected_techniques) = <<"T1059", "T1490">>
    /\ current_stage = 7
    /\ trk.result.predicted_techniques = <<"T1486">>
    /\ trk.result.confidence = 95
    /\ trk.result.urgency = "CRITICAL"

-----------------------------------------------------------------------------
(* Claims about whole monitoring iterations (checked under SpecTick)       *)

\* C24: within each monitoring tick the decoy integrity check and the process
\* scan complete before the decision engine classifies, so the verdict of a
\* tick reflects a decoy compromise that the same tick's integrity check
\* detected: after every tick that ran to its end the decoy status the engine
\* saw is the status the tick's check left.
C24_VerdictAfterProducers ==
    (call.outcome # "none" /\ loop.active /\ ~call.demo) => call.compromised = hpModified

\* no mapped flag of the dict is set
NoFlagMapped(indicators) ==
    \A k \in MappedKeys : ~(k \in DOMAIN indicators /\ indicators[k])

\* C25: operations that are not new detections leave the tracker state
\* unchanged: map_behavior_to_technique with an empty indicator dict, with all
\* flags False or with unmapped keys only, predict_next_stage and
\* generate_attack_report leave detected_techniques, attack_timeline and
\* current_stage exactly as they were.
C25_NonDetectionsLeaveTracker ==
    [][(\/ trk'.op \in {"predict", "report"}
        \/ (trk'.op = "map" /\ clock' # clock /\ NoFlagMapped(trk'.indicators)))
          => UNCHANGED <<detected_techniques, attack_timeline, current_stage>>]_vars

\* a dict with every mapped flag False was presented to a tracker that holds
\* techniques, after a report was generated
C25_Witness ==
    /\ trk.op = "map"
    /\ trk.indicators = [k \in MappedKeys |-> FALSE]
    /\ trk.added = 0
    /\ Len(detected_techniques) = 2
    /\ report.generated
    /\ report.attack_summary.total_techniques_detected = 2

\* number of alerts of one kind passed to the NotificationManager
Alerts(kind) == Cardinality({i \in 1..Len(pipe.notified) : pipe.notified[i] = kind})

\* respond_to_threat was just left by the exception its first call raised
FailedFirstCall ==
    /\ pipe.outcome = "raised"
    /\ pipe.incident_count = 1

\* C26: respond_to_threat on a pipeline whose tracker holds no technique, with
\* indicators that map to nothing, fails on the missing current_stage field
\* before execute_mitigation: incident_count is incremented and the threat
\* notification is sent, but no mitigation action runs and no incident record
\* is persisted.
C26_EmptyDetectionFailsEarly ==
    [][(/\ pipe'.incident_count = pipe.incident_count + 1
        /\ detected_techniques = <<>>
        /\ NoFlagMapped(trk'.indicators))
       => /\ pipe'.outcome = "raised"
          /\ pipe'.pc = "idle"
          /\ pipe'.notified = Append(pipe.notified, "alert_threat_detected")
          /\ mit' = mit
          /\ pipe'.files = pipe.files
          /\ pipe'.returned = pipe.returned
          /\ detected_techniques' = <<>>]_vars

\* the first call of a pipeline came with no indicators and failed: one
\* incident counted, one alert, no mitigation run, no incident file
C26_Witness ==
    /\ FailedFirstCall
    /\ detected_techniques = <<>>
    /\ Alerts("alert_threat_detected") = 1
    /\ Alerts("alert_mitigation_success") = 0
    /\ mit.runs = 0
    /\ pipe.files = <<>>

\* the order in which one call appends what it matched
AppendOrder == <<"T1490", "T1486", "T1083", "T1055", "T1059", "T1082">>

\* position of a technique id in AppendOrder
OrderIndex(id) == CHOOSE i \in 1..Len(AppendOrder) : AppendOrder[i] = id

\* the ids in s follow AppendOrder
InAppendOrder(s) ==
    \A i, j \in 1..Len(s) : i < j => OrderIndex(s[i]) < OrderIndex(s[j])

\* C27: within one map_behavior_to_technique call the techniques are appended
\* in the fixed order T1490, T1486, T1083, T1055, T1059, T1082, not by stage;
\* the last detected technique can therefore have a stage below current_stage
\* and predict_next_stage can return techniques already detected: one call with
\* high_entropy, file_discovery and shadow_copy_deletion gives current_stage 8
\* and the predictions T1490, T1486.
C27_AppendedInTableOrder ==
    /\ [][(trk'.op = "map" /\ clock' # clock)
            => /\ InAppendOrder(SubSeq(Ids(detected_techniques'),
                                       Len(detected_techniques) + 1,
                                       Len(detected_techniques')))
               /\ SubSeq(detected_techniques', 1, Len(detected_techniques))
                     = detected_techniques]_vars
    /\ []((/\ Len(detected_techniques) = 3
           /\ IdSet(detected_techniques) = {"T1486", "T1083", "T1490"}
           /\ \A i \in 1..3 : detected_techniques[i].timestamp = 1)
          => /\ Ids(detected_techniques) = <<"T1490", "T1486", "T1083">>
             /\ current_stage = 8
             /\ predict_next_stage(Tracker).predicted_techniques = <<"T1490", "T1486">>)

\* one call recorded the three techniques and predict_next_stage then returned
\* two techniques that are already detected, from a technique of stage 6
C27_Witness ==
    /\ trk.op = "predict"
    /\ Len(detected_techniques) = 3
    /\ \A i \in 1..3 : detected_techniques[i].timestamp = 1
    /\ detected_techniques[3].stage = 6
    /\ current_stage = 8
    /\ trk.result.predicted_techniques = <<"T1490", "T1486">>
    /\ \A i \in 1..2 : trk.result.predicted_techniques[i] \in IdSet(detected_techniques)

\* an action of the result reports success = false
SomeActionFailed(result) ==
    \E i \in 1..Len(result.actions_taken) : ~result.actions_taken[i].success

\* C28: every respond_to_threat call that returns reports status CONTAINED and
\* sends the mitigation-success notification, whatever the mitigation outcome,
\* also when execute_mitigation returned FAILED or actions report
\* success = false; execute_mitigation returns SUCCESS whenever no exception
\* escaped a step, even when actions report success = false.
C28_AlwaysContained ==
    /\ [](\A k \in 1..Len(pipe.returned) : pipe.returned[k].status = "CONTAINED")
    /\ [](Alerts("alert_mitigation_success") = Len(pipe.returned))
    /\ [][Len(pipe'.returned) = Len(pipe.returned) + 1
            => pipe'.notified = Append(pipe.notified, "alert_mitigation_success")]_vars
    /\ []((mit.pc = "idle" /\ mit.outcome = "returned")
            => (mit.returned.status = "SUCCESS" <=> mit.returned.error = "-"))

\* two calls returned, each after a run of execute_mitigation that ended FAILED
\* with an action reporting success = false; both packages are CONTAINED and
\* both were announced as successes
C28_Witness ==
    /\ Len(pipe.returned) = 2
    /\ \A k \in 1..2 :
          /\ pipe.returned[k].mitigation_result.status = "FAILED"
          /\ pipe.returned[k].status = "CONTAINED"
    /\ Alerts("alert_mitigation_success") = 2
    /\ pipe.notified[Len(pipe.notified)] = "alert_mitigation_success"

\* a step that is a loop iteration in which check_integrity ran: the decoy
\* files and the registry are as before, and the backend reached its check
IterationWithCheck ==
    /\ hpTotal' = hpTotal
    /\ disk'.overwritten = disk.overwritten
    /\ disk'.deleted = disk.deleted
    /\ system = "stage1" \/ (~demo_mode /\ ~loop'.failed)

\* C29: get_status counts a decoy as compromised only after check_integrity
\* found a hash mismatch on an existing decoy; a deleted decoy produces a
\* DELETED alert on every check but is never counted, so deleting decoys alone
\* never makes compromised > 0 and never triggers the decoy override.
C29_DeletedDecoysNotCounted ==
    /\ [](get_status.compromised <= disk.overwritten)
    /\ [](disk.overwritten = 0 => (get_status.compromised = 0 /\ call.compromised = 0))
    /\ [][IterationWithCheck
            => /\ disk'.deleted_alerts = disk.deleted
               /\ hpModified' = Max(hpModified, disk.overwritten)]_vars

\* decoys were deleted, none overwritten; the Stage 1 loop checked them,
\* alerted for each and classified the tick with an intact decoy status
C29_Witness ==
    /\ system = "stage1"
    /\ disk.overwritten = 0
    /\ disk.deleted >= 2
    /\ disk.deleted_alerts = disk.deleted
    /\ call.outcome = "returned"
    /\ call.compromised = 0
    /\ call.total_honeypots = NumHoneypots
    /\ get_status.compromised = 0

\* the techniques the pattern table of map_behavior_to_technique can name
MappableIds == {"T1059", "T1055", "T1082", "T1083", "T1490", "T1486"}

\* the largest stage among the records (0 if there is none)
MaxStage(records) ==
    IF records = <<>> THEN 0
    ELSE CHOOSE s \in {records[i].stage : i \in 1..Len(records)} :
            \A i \in 1..Len(records) : records[i].stage <= s

\* C30: through map_behavior_to_technique only T1059, T1055, T1082, T1083,
\* T1490 and T1486 can be recorded: detected_techniques holds at most 6 entries
\* with pairwise distinct ids, attack_timeline is identical to it, and
\* current_stage is the largest stage among them (0 if none), hence one of
\* 0, 3, 4, 5, 6, 7, 8 and never 9.
C30_SixMappableTechniques ==
    /\ IdSet(detected_techniques) \subseteq MappableIds
    /\ Len(detected_techniques) <= 6
    /\ Cardinality(IdSet(detected_techniques)) = Len(detected_techniques)
    /\ attack_timeline = detected_techniques
    /\ current_stage = MaxStage(detected_techniques)
    /\ current_stage \in {0, 3, 4, 5, 6, 7, 8}

\* all six techniques are recorded, by more than one call, and a further call
\* with every flag set added nothing
C30_Witness ==
    /\ trk.op = "map"
    /\ trk.matched = <<"T1490", "T1486", "T1083", "T1055", "T1059", "T1082">>
    /\ trk.added = 0
    /\ Len(detected_techniques) = 6
    /\ detected_techniques[1].timestamp < detected_techniques[6].timestamp
    /\ current_stage = 8

=============================================================================
